---- MODULE Spec2Model ----
(***************************************************************************)
(* The finite-state-machine engine of assigment2/state_machine.py and its  *)
(* mod-three instantiation, and the threshold scan of                      *)
(* assigment1/best_recall_threshold.py.                                    *)
(*                                                                         *)
(* Python values are modelled as follows.  States are strings; a letter is *)
(* an integer; a text is a sequence of one-character strings.  A method is *)
(* an operator from the attributes visible to it ("mem": the class         *)
(* attributes current_state and transition_matrix and the instance's own   *)
(* current_state attribute) and its arguments to a record holding the      *)
(* attributes after the call, the exception raised (NoExc when it returns) *)
(* and the value returned.                                                 *)
(***************************************************************************)
EXTENDS Integers, Sequences, FiniteSets, TLC

VARIABLES
  class_current_state,  \* ThreeFiniteStateMachine.current_state (class attribute)
  transition_matrix,    \* ThreeFiniteStateMachine.transition_matrix (class attribute)
  instances,            \* per instance variable: the instance's own current_state attribute
  last,                 \* the latest call: its arguments and its outcome
  hist,                 \* per instance: the letters consumed by its chained calls
  remembered,           \* some earlier call of binary_divide_by_three
  recall                \* a call of find_best_recall_threshold: arguments, outcome

vars == <<class_current_state, transition_matrix, instances, last, hist, remembered,
          recall>>

----------------------------------------------------------------------------
(* Bounds *)

\* longest list or text passed to binary_divide_by_three / string_digit_list
MaxLen == 3
\* longest letter sequence passed to sequence_transition
MaxSeq == 2
\* longest run of chained letters tracked per instance
MaxHist == 3
\* longest letter sequence passed to sequence_transition by two callers
MaxIsoSeq == 1
\* largest count of true positives or false negatives in a bucket
MaxCount == 2

----------------------------------------------------------------------------
(* Values *)

None == "None"
NoExc == "no exception"
NoValue == "no value"
NoAttr == "no instance attribute"
NoInstance == "no instance"

InvalidAlphabetContent == "InvalidAlphabetContent"
InvalidState == "InvalidState"
ValueError == "ValueError"

\* Q, the strings state_check accepts
Q == {"S0", "S1", "S2"}

\* the integers letter_transition_index accepts
Sigma == {0, 1}

\* letters offered by callers: the alphabet and one integer outside it
Letters == {0, 1, 2}

\* states offered by callers: Q, a non-empty string outside Q, the empty
\* string (falsy in Python) and None (argument not supplied)
StateArgs == Q \cup {"S3", "", None}

\* characters offered by callers: binary digits, other digits, a non-digit
Chars == {"0", "1", "2", "9", "a"}

\* instance variables of the callers: the one most callers use, and all
Ids == {1}
AllIds == {1, 2}

RECURSIVE SeqsUpTo(_, _)
SeqsUpTo(S, n) ==
  IF n = 0 THEN {<<>>}
  ELSE LET shorter == SeqsUpTo(S, n - 1)
       IN shorter \cup {Append(s, x) : s \in {t \in shorter : Len(t) = n - 1}, x \in S}

LetterSeqs == SeqsUpTo(Letters, MaxLen)
EngineSeqs == SeqsUpTo(Letters, MaxSeq)
IsoSeqs == SeqsUpTo(Letters, MaxIsoSeq)
Texts == SeqsUpTo(Chars, MaxLen)

----------------------------------------------------------------------------
(* class ThreeFiniteStateMachine *)

\* variant of the table: the row of S2 with its two entries exchanged
TransitionMatrixSwappedS2 ==
  [s \in Q |-> CASE s = "S0" -> <<"S0", "S1">>
                 [] s = "S1" -> <<"S2", "S0">>
                 [] s = "S2" -> <<"S2", "S1">>]

\* variant of the table: the row of S0 with its two entries exchanged
TransitionMatrixS0Moves ==
  [s \in Q |-> CASE s = "S0" -> <<"S1", "S0">>
                 [] s = "S1" -> <<"S2", "S0">>
                 [] s = "S2" -> <<"S1", "S2">>]

\* variant of the table: S1 on letter 1 goes to a state outside Q
TransitionMatrixLeaks ==
  [s \in Q |-> CASE s = "S0" -> <<"S0", "S1">>
                 [] s = "S1" -> <<"S2", "S3">>
                 [] s = "S2" -> <<"S1", "S2">>]

\* transition_matrix = {'S0': ['S0','S1'], 'S1': ['S2','S0'], 'S2': ['S1','S2']}
TransitionMatrix ==
  [s \in Q |-> CASE s = "S0" -> <<"S0", "S1">>
                 [] s = "S1" -> <<"S2", "S0">>
                 [] s = "S2" -> <<"S1", "S2">>]

\* current_state = 'S0' in the class body
ClassCurrentState == "S0"

\* python truthiness of a state argument: None and '' are falsy
Falsy(x) == x \in {None, ""}

\* the attributes a method of instance i sees
Mem(i) == [cls |-> class_current_state,
           obj |-> instances[i],
           tm  |-> transition_matrix]

\* self.current_state: the instance attribute if set, else the class attribute
current_state(mem) == IF mem.obj = NoAttr THEN mem.cls ELSE mem.obj

\* variant: the index is the letter modulo 2, nothing is rejected
letter_transition_index_mod2(letter) ==
  [exc |-> NoExc, ret |-> letter % 2]

\* letter_transition_index: the letter itself when in [0, 1], else the base
\* class raises InvalidAlphabetContent
letter_transition_index(letter) ==
  IF letter \in Sigma
  THEN [exc |-> NoExc, ret |-> letter]
  ELSE [exc |-> InvalidAlphabetContent, ret |-> 0]

\* state_check: the state itself when in ['S0','S1','S2'], else the base class
\* raises InvalidState
state_check(state) ==
  IF state \in Q
  THEN [exc |-> NoExc, ret |-> state]
  ELSE [exc |-> InvalidState, ret |-> NoValue]

\* initial_state
initial_state == "S0"

----------------------------------------------------------------------------
(* class FiniteStateMachine *)

\* variant: transition also assigns the state it looked up to self.current_state
transition_storing(mem, state, letter) ==
  LET sc == state_check(state)
      li == letter_transition_index(letter)
  IN  IF sc.exc # NoExc
      THEN [mem |-> mem, exc |-> sc.exc, ret |-> NoValue, trace |-> <<"state_check">>]
      ELSE IF li.exc # NoExc
      THEN [mem |-> [mem EXCEPT !.obj = sc.ret], exc |-> li.exc, ret |-> NoValue,
            trace |-> <<"state_check", "row", "letter_transition_index">>]
      ELSE [mem |-> [mem EXCEPT !.obj = mem.tm[sc.ret][li.ret + 1]],
            exc |-> NoExc, ret |-> mem.tm[sc.ret][li.ret + 1],
            trace |-> <<"state_check", "row", "letter_transition_index", "column">>]

\* transition: self.transition_matrix[self.state_check(state)]
\*                                   [self.letter_transition_index(letter)]
\* Python evaluates the first subscript (state_check, then the row lookup)
\* before the second (letter_transition_index, then the column lookup); the
\* trace lists the steps taken.  A python list is indexed from 0, a TLA+
\* sequence from 1.
transition(mem, state, letter) ==
  LET sc == state_check(state)
      li == letter_transition_index(letter)
  IN  IF sc.exc # NoExc
      THEN [mem |-> mem, exc |-> sc.exc, ret |-> NoValue, trace |-> <<"state_check">>]
      ELSE IF li.exc # NoExc
      THEN [mem |-> mem, exc |-> li.exc, ret |-> NoValue,
            trace |-> <<"state_check", "row", "letter_transition_index">>]
      ELSE [mem |-> mem, exc |-> NoExc, ret |-> mem.tm[sc.ret][li.ret + 1],
            trace |-> <<"state_check", "row", "letter_transition_index", "column">>]

\* functools.reduce(self.transition, alphabet_sequence, initial_state):
\* the accumulator is returned untouched for an empty sequence; the first
\* exception ends the fold.  steps counts the calls of transition.
RECURSIVE reduce(_, _, _)
reduce(mem, seq, acc) ==
  IF seq = <<>>
  THEN [mem |-> mem, exc |-> NoExc, ret |-> acc, steps |-> 0]
  ELSE LET t == transition(mem, acc, Head(seq))
       IN  IF t.exc # NoExc
           THEN [mem |-> t.mem, exc |-> t.exc, ret |-> NoValue, steps |-> 1]
           ELSE LET r == reduce(t.mem, Tail(seq), t.ret)
                IN  [r EXCEPT !.steps = @ + 1]

\* the fold that assigns current_state after every letter
RECURSIVE reduce_storing(_, _, _)
reduce_storing(mem, seq, acc) ==
  IF seq = <<>>
  THEN [mem |-> mem, exc |-> NoExc, ret |-> acc, steps |-> 0]
  ELSE LET t == transition(mem, acc, Head(seq))
       IN  IF t.exc # NoExc
           THEN [mem |-> t.mem, exc |-> t.exc, ret |-> NoValue, steps |-> 1]
           ELSE LET r == reduce_storing([t.mem EXCEPT !.obj = t.ret], Tail(seq), t.ret)
                IN  [r EXCEPT !.steps = @ + 1]

\* variant: current_state is assigned letter by letter
sequence_transition_stepwise(mem, alphabet_sequence, init_state) ==
  LET start == IF Falsy(init_state) THEN current_state(mem) ELSE init_state
  IN  reduce_storing(mem, alphabet_sequence, start)

\* variant: the result is returned but not assigned
sequence_transition_no_store(mem, alphabet_sequence, init_state) ==
  LET start == IF Falsy(init_state) THEN current_state(mem) ELSE init_state
  IN  reduce(mem, alphabet_sequence, start)

\* variant: the result is assigned to the class attribute
sequence_transition_class_store(mem, alphabet_sequence, init_state) ==
  LET start == IF Falsy(init_state) THEN current_state(mem) ELSE init_state
      r == reduce(mem, alphabet_sequence, start)
  IN  IF r.exc # NoExc THEN r ELSE [r EXCEPT !.mem.cls = r.ret]

\* variant: the fold always starts from self.current_state
sequence_transition_ignore_init(mem, alphabet_sequence, init_state) ==
  LET r == reduce(mem, alphabet_sequence, current_state(mem))
  IN  IF r.exc # NoExc THEN r ELSE [r EXCEPT !.mem.obj = r.ret]

\* variant: a falsy initial_state is replaced by self.initial_state()
sequence_transition_from_initial(mem, alphabet_sequence, init_state) ==
  LET start == IF Falsy(init_state) THEN initial_state ELSE init_state
      r == reduce(mem, alphabet_sequence, start)
  IN  IF r.exc # NoExc THEN r ELSE [r EXCEPT !.mem.obj = r.ret]

\* sequence_transition: a falsy initial_state is replaced by
\* self.current_state; the fold runs; only when it returns is the result
\* assigned to self.current_state (an instance attribute) and returned.
sequence_transition(mem, alphabet_sequence, init_state) ==
  LET start == IF Falsy(init_state) THEN current_state(mem) ELSE init_state
      r == reduce(mem, alphabet_sequence, start)
  IN  IF r.exc # NoExc THEN r ELSE [r EXCEPT !.mem.obj = r.ret]

----------------------------------------------------------------------------
(* module-level functions *)

\* ThreeFiniteStateMachine(): a new instance has no attribute of its own
ThreeFiniteStateMachine(cls, tm) == [cls |-> cls, obj |-> NoAttr, tm |-> tm]

\* match final_state: case 'S0' -> 0, 'S1' -> 1, 'S2' -> 2, else InvalidState.
\* The returned integer is held in a sequence, empty when nothing is returned.
remainder_of(final_state) ==
  CASE final_state = "S0" -> [exc |-> NoExc, rem |-> <<0>>]
    [] final_state = "S1" -> [exc |-> NoExc, rem |-> <<1>>]
    [] final_state = "S2" -> [exc |-> NoExc, rem |-> <<2>>]
    [] OTHER -> [exc |-> InvalidState, rem |-> <<>>]

\* variant: no test for the empty list
binary_divide_by_three_unchecked(cls, tm, sequence) ==
  LET state_machine == ThreeFiniteStateMachine(cls, tm)
      st == sequence_transition(state_machine, sequence, None)
      rm == remainder_of(st.ret)
  IN  [cls |-> st.mem.cls, tm |-> st.mem.tm,
       exc |-> IF st.exc # NoExc THEN st.exc ELSE rm.exc,
       rem |-> IF st.exc # NoExc THEN <<>> ELSE rm.rem,
       constructed |-> TRUE, steps |-> st.steps,
       start |-> current_state(state_machine)]

\* binary_divide_by_three: an empty list raises InvalidAlphabetContent before
\* anything else happens; otherwise a new instance runs the sequence from its
\* current state and the final state is translated into the remainder.
\* cls and tm are the class attributes before and after the call.
binary_divide_by_three(cls, tm, sequence) ==
  IF Len(sequence) = 0
  THEN [cls |-> cls, tm |-> tm, exc |-> InvalidAlphabetContent, rem |-> <<>>,
        constructed |-> FALSE, steps |-> 0, start |-> NoValue]
  ELSE LET state_machine == ThreeFiniteStateMachine(cls, tm)
           st == sequence_transition(state_machine, sequence, None)
           rm == remainder_of(st.ret)
       IN  [cls |-> st.mem.cls, tm |-> st.mem.tm,
            exc |-> IF st.exc # NoExc THEN st.exc ELSE rm.exc,
            rem |-> IF st.exc # NoExc THEN <<>> ELSE rm.rem,
            constructed |-> TRUE, steps |-> st.steps,
            start |-> current_state(state_machine)]

\* int(digit) of a one-character string: the digit's value, ValueError for a
\* character that is no digit
int(digit) ==
  CASE digit = "0" -> [exc |-> NoExc, ret |-> 0]
    [] digit = "1" -> [exc |-> NoExc, ret |-> 1]
    [] digit = "2" -> [exc |-> NoExc, ret |-> 2]
    [] digit = "3" -> [exc |-> NoExc, ret |-> 3]
    [] digit = "4" -> [exc |-> NoExc, ret |-> 4]
    [] digit = "5" -> [exc |-> NoExc, ret |-> 5]
    [] digit = "6" -> [exc |-> NoExc, ret |-> 6]
    [] digit = "7" -> [exc |-> NoExc, ret |-> 7]
    [] digit = "8" -> [exc |-> NoExc, ret |-> 8]
    [] digit = "9" -> [exc |-> NoExc, ret |-> 9]
    [] OTHER -> [exc |-> ValueError, ret |-> 0]

\* variant: the digits come out last character first
RECURSIVE string_digit_list_reversed(_)
string_digit_list_reversed(digit_string) ==
  IF digit_string = <<>>
  THEN [exc |-> NoExc, ret |-> <<>>]
  ELSE LET d == int(Head(digit_string))
           rest == string_digit_list_reversed(Tail(digit_string))
       IN  IF d.exc # NoExc THEN [exc |-> d.exc, ret |-> <<>>]
           ELSE IF rest.exc # NoExc THEN rest
           ELSE [exc |-> NoExc, ret |-> Append(rest.ret, d.ret)]

\* string_digit_list: [int(digit) for digit in digit_string], left to right;
\* the first character that is no digit raises ValueError
RECURSIVE string_digit_list(_)
string_digit_list(digit_string) ==
  IF digit_string = <<>>
  THEN [exc |-> NoExc, ret |-> <<>>]
  ELSE LET d == int(Head(digit_string))
           rest == string_digit_list(Tail(digit_string))
       IN  IF d.exc # NoExc THEN [exc |-> d.exc, ret |-> <<>>]
           ELSE IF rest.exc # NoExc THEN rest
           ELSE [exc |-> NoExc, ret |-> <<d.ret>> \o rest.ret]

----------------------------------------------------------------------------
(* assigment1/best_recall_threshold.py *)

InvalidDataException == "InvalidDataException"

\* the number of thresholds 0.1 .. 0.9, the length both lists must have
NumThresholds == 9

\* A python float that is the quotient of two small integers is held as the
\* pair <<numerator, denominator>>, denominator > 0; int / int is correctly
\* rounded, so two such floats compare as the quotients do.
RatLess(a, b) == a[1] * b[2] < b[1] * a[2]
RatGeq(a, b) == a[1] * b[2] >= b[1] * a[2]

Min(a, b) == IF a < b THEN a ELSE b

\* variant: a later bucket of equal recall replaces the best one
RECURSIVE best_scan_last_tie(_, _, _, _, _, _)
best_scan_last_tie(tp_list, fn_list, recall_threshold, i, best_threshold, best_recall) ==
  IF i >= Min(Len(tp_list), Len(fn_list)) THEN best_threshold
  ELSE LET tp == tp_list[i + 1]
           fn == fn_list[i + 1]
           threshold == <<i + 1, 10>>
           rc == IF tp + fn > 0 THEN <<tp, tp + fn>> ELSE <<0, 1>>
       IN  IF RatGeq(rc, recall_threshold)
              /\ (~RatLess(rc, best_recall) \/ best_threshold = <<>>)
           THEN best_scan_last_tie(tp_list, fn_list, recall_threshold, i + 1, threshold, rc)
           ELSE best_scan_last_tie(tp_list, fn_list, recall_threshold, i + 1,
                                   best_threshold, best_recall)

\* for i, (tp, fn) in enumerate(zip(tp_list, fn_list)): the loop from index i
\* on, with best_threshold (<<>> for None) and best_recall as they stand;
\* zip stops at the shorter list.  threshold = (i + 1) / 10; recall is
\* tp / (tp + fn), or 0 when tp + fn is 0; a bucket becomes the best one when
\* its recall reaches recall_threshold and exceeds best_recall (or there is
\* no best one yet).
RECURSIVE best_scan(_, _, _, _, _, _)
best_scan(tp_list, fn_list, recall_threshold, i, best_threshold, best_recall) ==
  IF i >= Min(Len(tp_list), Len(fn_list)) THEN best_threshold
  ELSE LET tp == tp_list[i + 1]
           fn == fn_list[i + 1]
           threshold == <<i + 1, 10>>
           rc == IF tp + fn > 0 THEN <<tp, tp + fn>> ELSE <<0, 1>>
       IN  IF RatGeq(rc, recall_threshold)
              /\ (RatLess(best_recall, rc) \/ best_threshold = <<>>)
           THEN best_scan(tp_list, fn_list, recall_threshold, i + 1, threshold, rc)
           ELSE best_scan(tp_list, fn_list, recall_threshold, i + 1,
                          best_threshold, best_recall)

\* variant: only the length of tp_list is tested
find_best_recall_threshold_tp_only(tp_list, fn_list, recall_threshold) ==
  IF Len(tp_list) # NumThresholds
  THEN [exc |-> InvalidDataException, ret |-> <<>>]
  ELSE [exc |-> NoExc,
        ret |-> best_scan(tp_list, fn_list, recall_threshold, 0, <<>>, <<-1, 1>>)]

\* find_best_recall_threshold: InvalidDataException unless both lists have 9
\* entries; else the scan from best_threshold = None, best_recall = -1
find_best_recall_threshold(tp_list, fn_list, recall_threshold) ==
  IF Len(tp_list) # NumThresholds \/ Len(fn_list) # Len(tp_list)
  THEN [exc |-> InvalidDataException, ret |-> <<>>]
  ELSE [exc |-> NoExc,
        ret |-> best_scan(tp_list, fn_list, recall_threshold, 0, <<>>, <<-1, 1>>)]

\* counts offered by callers
Counts == 0..MaxCount

\* recall_threshold values offered by callers: 0.0, 0.5, 0.9 (the default), 1.1
Targets == {<<0, 1>>, <<1, 2>>, <<9, 10>>, <<11, 10>>}

\* list lengths offered by callers: none, one short, right, one long
Lengths == {0, NumThresholds - 1, NumThresholds, NumThresholds + 1}

\* the list of n entries that is base but for a at p and b at q
Shaped(n, base, p, a, q, b) ==
  [k \in 1..n |-> IF k = p THEN a ELSE IF k = q THEN b ELSE base]

\* argument lists: lists of every length with one count throughout, and
\* lists of 9 counts that are all 0 or all 1 but for two buckets
RecallArgs ==
  {[tp |-> [k \in 1..n |-> c], fn |-> [k \in 1..m |-> d]] :
     n \in Lengths, m \in Lengths, c \in Counts, d \in Counts}
  \cup
  {[tp |-> Shaped(NumThresholds, base, pq[1], ab[1], pq[2], ab[2]),
    fn |-> Shaped(NumThresholds, base, pq[1], ab[3], pq[2], ab[4])] :
     base \in {0, 1},
     pq \in {x \in (1..NumThresholds) \X (1..NumThresholds) : x[1] < x[2]},
     ab \in Counts \X Counts \X Counts \X Counts}

\* no call of find_best_recall_threshold made yet
NoRecall == [tp |-> <<>>, fn |-> <<>>, target |-> <<9, 10>>, done |-> FALSE,
             exc |-> NoExc, ret |-> <<>>]

----------------------------------------------------------------------------
(* The callers *)

\* the record of a call; the fields a call does not use keep these values
NoCall == [op |-> "none", inst |-> 0, seq |-> <<>>, init |-> None,
           state |-> None, letter |-> 0, text |-> <<>>, digits |-> <<>>,
           before |-> NoValue, exc |-> NoExc, ret |-> NoValue, rem |-> <<>>,
           steps |-> 0, constructed |-> FALSE, start |-> NoValue,
           trace |-> <<>>]

\* the chained letters of an instance that has not been given a start state
Chained(s) == [ok |-> TRUE, seq |-> s]
Unchained == [ok |-> FALSE, seq |-> <<>>]

\* the current state of instance i
CurrentState(i) == current_state(Mem(i))

Init ==
  /\ class_current_state = ClassCurrentState
  /\ transition_matrix = TransitionMatrix
  /\ instances = [i \in AllIds |-> NoInstance]
  /\ last = NoCall
  /\ hist = [i \in AllIds |-> Unchained]
  /\ remembered = NoCall
  /\ recall = NoRecall

\* m = ThreeFiniteStateMachine()
Construct(i) ==
  /\ instances' = [instances EXCEPT ![i] = ThreeFiniteStateMachine(class_current_state, transition_matrix).obj]
  /\ hist' = [hist EXCEPT ![i] = Chained(<<>>)]
  /\ last' = [NoCall EXCEPT !.op = "construct", !.inst = i]
  /\ UNCHANGED <<class_current_state, transition_matrix, remembered, recall>>

\* m.sequence_transition(seq, init), m.sequence_transition(seq) when init is
\* None; the letters chained on the instance are tracked up to maxhist
SequenceTransitionTracked(i, seq, init, maxhist) ==
  /\ instances[i] # NoInstance
  /\ LET r == sequence_transition(Mem(i), seq, init)
     IN  /\ class_current_state' = r.mem.cls
         /\ transition_matrix' = r.mem.tm
         /\ instances' = [instances EXCEPT ![i] = r.mem.obj]
         /\ last' = [NoCall EXCEPT !.op = "sequence_transition", !.inst = i,
                       !.seq = seq, !.init = init, !.before = CurrentState(i),
                       !.exc = r.exc, !.ret = r.ret, !.steps = r.steps]
         /\ hist' = [hist EXCEPT ![i] =
                       IF r.exc # NoExc THEN @
                       ELSE IF init = None /\ @.ok /\ Len(@.seq) + Len(seq) <= maxhist
                       THEN Chained(@.seq \o seq)
                       ELSE Unchained]
  /\ UNCHANGED <<remembered, recall>>

SequenceTransition(i, seq, init) == SequenceTransitionTracked(i, seq, init, MaxHist)

\* the same call by one of two callers; only an empty chain is tracked
SequenceTransitionOfTwo(i, seq, init) == SequenceTransitionTracked(i, seq, init, 0)

\* m.transition(state, letter)
Transition(i, state, letter) ==
  /\ instances[i] # NoInstance
  /\ LET r == transition(Mem(i), state, letter)
     IN  /\ class_current_state' = r.mem.cls
         /\ transition_matrix' = r.mem.tm
         /\ instances' = [instances EXCEPT ![i] = r.mem.obj]
         /\ last' = [NoCall EXCEPT !.op = "transition", !.inst = i,
                       !.state = state, !.letter = letter,
                       !.before = CurrentState(i),
                       !.exc = r.exc, !.ret = r.ret, !.trace = r.trace]
  /\ UNCHANGED <<hist, remembered, recall>>

\* binary_divide_by_three(seq); remembered becomes or stays an earlier call
BinaryDivideByThree(seq) ==
  /\ LET r == binary_divide_by_three(class_current_state, transition_matrix, seq)
     IN  /\ class_current_state' = r.cls
         /\ transition_matrix' = r.tm
         /\ last' = [NoCall EXCEPT !.op = "binary_divide_by_three", !.seq = seq,
                       !.exc = r.exc, !.rem = r.rem, !.steps = r.steps,
                       !.constructed = r.constructed, !.start = r.start]
  /\ remembered' \in {remembered, last}
  /\ UNCHANGED <<instances, hist, recall>>

\* binary_divide_by_three(string_digit_list(text))
DivideString(text) ==
  /\ LET d == string_digit_list(text)
         r == binary_divide_by_three(class_current_state, transition_matrix, d.ret)
     IN  IF d.exc # NoExc
         THEN /\ last' = [NoCall EXCEPT !.op = "divide_string", !.text = text,
                            !.exc = d.exc]
              /\ UNCHANGED <<class_current_state, transition_matrix>>
         ELSE /\ class_current_state' = r.cls
              /\ transition_matrix' = r.tm
              /\ last' = [NoCall EXCEPT !.op = "divide_string", !.text = text,
                            !.digits = d.ret, !.seq = d.ret,
                            !.exc = r.exc, !.rem = r.rem, !.steps = r.steps,
                            !.constructed = r.constructed, !.start = r.start]
  /\ UNCHANGED <<instances, hist, remembered, recall>>

\* one instance driven through the engine's methods
Next ==
  \/ \E i \in Ids : Construct(i)
  \/ \E i \in Ids, seq \in EngineSeqs, init \in StateArgs : SequenceTransition(i, seq, init)
  \/ \E i \in Ids, state \in StateArgs, letter \in Letters : Transition(i, state, letter)

Spec == Init /\ [][Next]_vars

\* two instances driven through the engine's methods
NextIsolation ==
  \/ \E i \in AllIds : Construct(i)
  \/ \E i \in AllIds, seq \in IsoSeqs, init \in StateArgs : SequenceTransitionOfTwo(i, seq, init)
  \/ \E i \in AllIds, state \in StateArgs, letter \in Letters : Transition(i, state, letter)

SpecIsolation == Init /\ [][NextIsolation]_vars

\* the arguments of one call of find_best_recall_threshold are chosen
InitRecall ==
  /\ class_current_state = ClassCurrentState
  /\ transition_matrix = TransitionMatrix
  /\ instances = [i \in AllIds |-> NoInstance]
  /\ last = NoCall
  /\ hist = [i \in AllIds |-> Unchained]
  /\ remembered = NoCall
  /\ \E args \in RecallArgs, target \in Targets :
       recall = [NoRecall EXCEPT !.tp = args.tp, !.fn = args.fn, !.target = target]

\* find_best_recall_threshold(tp_list, fn_list, recall_threshold)
FindBestRecallThreshold ==
  /\ ~recall.done
  /\ LET r == find_best_recall_threshold(recall.tp, recall.fn, recall.target)
     IN  recall' = [recall EXCEPT !.done = TRUE, !.exc = r.exc, !.ret = r.ret]
  /\ UNCHANGED <<class_current_state, transition_matrix, instances, last, hist,
                 remembered>>

NextRecall == FindBestRecallThreshold

SpecRecall == InitRecall /\ [][NextRecall]_vars

\* calls of binary_divide_by_three with lists of integers
NextAdapter == \E seq \in LetterSeqs : BinaryDivideByThree(seq)

SpecAdapter == Init /\ [][NextAdapter]_vars

\* calls of binary_divide_by_three with the digits of a text
NextString == \E text \in Texts : DivideString(text)

SpecString == Init /\ [][NextString]_vars

----------------------------------------------------------------------------
(* Properties *)

BinaryOp == "binary_divide_by_three"
SequenceOp == "sequence_transition"

\* the number a list of bits denotes, most significant bit first
RECURSIVE BinaryValue(_)
BinaryValue(bits) ==
  IF bits = <<>> THEN 0
  ELSE 2 * BinaryValue(SubSeq(bits, 1, Len(bits) - 1)) + bits[Len(bits)]

IsBits(s) == \A k \in 1..Len(s) : s[k] \in {0, 1}

\* long is short with one or more 0 put in front
ZeroPrefixed(long, short) ==
  /\ Len(long) > Len(short)
  /\ \A k \in 1..(Len(long) - Len(short)) : long[k] = 0
  /\ SubSeq(long, Len(long) - Len(short) + 1, Len(long)) = short

DigitChars == <<"0", "1", "2", "3", "4", "5", "6", "7", "8", "9">>
IsDigit(c) == \E k \in 1..Len(DigitChars) : DigitChars[k] = c
DigitValue(c) == (CHOOSE k \in 1..Len(DigitChars) : DigitChars[k] = c) - 1
IsDigitText(t) == \A k \in 1..Len(t) : IsDigit(t[k])
IsBinaryText(t) == \A k \in 1..Len(t) : t[k] \in {"0", "1"}
TextValue(t) == BinaryValue([k \in 1..Len(t) |-> DigitValue(t[k])])

\* C1: for every non-empty list of bits, binary_divide_by_three returns the
\* number the bits denote (most significant first) modulo 3, one of 0, 1, 2.
C1_RemainderIsValueModThree ==
  (last.op = BinaryOp /\ last.seq # <<>> /\ IsBits(last.seq)) =>
    /\ last.exc = NoExc
    /\ last.rem = <<BinaryValue(last.seq) % 3>>
    /\ last.rem[1] \in {0, 1, 2}

C1_Witness ==
  last.op = BinaryOp /\ last.seq = <<1, 0, 1>> /\ last.rem = <<2>>

\* C2: when sequence_transition raises, the instance's current state after
\* the call is its current state before the call.
C2_FailureKeepsCurrentState ==
  (last.op = SequenceOp /\ last.exc # NoExc) =>
    CurrentState(last.inst) = last.before

C2_Witness ==
  /\ last.op = SequenceOp /\ last.seq = <<1, 2>> /\ last.init = None
  /\ last.exc = InvalidAlphabetContent /\ last.before = "S0"

\* C3: sequence_transition given a start state outside Q raises InvalidState,
\* whatever the letter sequence (the empty one included), and leaves the
\* current state unchanged.
C3_StartStateOutsideQRaises ==
  (last.op = SequenceOp /\ last.init \notin Q \cup {None}) =>
    /\ last.exc = InvalidState
    /\ CurrentState(last.inst) = last.before

\* C4: binary_divide_by_three of a list holding a letter outside {0,1} raises
\* InvalidAlphabetContent and returns nothing, wherever that letter stands.
C4_ForeignLetterRaises ==
  (last.op = BinaryOp /\ \E k \in 1..Len(last.seq) : last.seq[k] \notin {0, 1}) =>
    /\ last.exc = InvalidAlphabetContent
    /\ last.rem = <<>>

C4_Witness ==
  last.op = BinaryOp /\ last.seq = <<0, 1, 2>> /\ last.exc = InvalidAlphabetContent

\* C5: binary_divide_by_three of the empty list raises InvalidAlphabetContent
\* and returns nothing, before an instance is created or a transition applied.
C5_EmptyListRaisesFirst ==
  (last.op = BinaryOp /\ last.seq = <<>>) =>
    /\ last.exc = InvalidAlphabetContent
    /\ last.rem = <<>>
    /\ ~last.constructed
    /\ last.steps = 0

C5_Witness ==
  last.op = BinaryOp /\ last.seq = <<>> /\ last.exc # NoExc

\* C6: the outcome of a call of binary_divide_by_three depends on its own
\* argument only: any earlier call with the same argument had the same
\* outcome, and the instance of every call starts in S0.
C6_CallsAreIndependent ==
  /\ (last.op = BinaryOp /\ remembered.op = BinaryOp /\ remembered.seq = last.seq) =>
       (remembered.exc = last.exc /\ remembered.rem = last.rem)
  /\ (last.op = BinaryOp /\ last.constructed) => last.start = "S0"

C6_Witness ==
  /\ last.op = BinaryOp /\ remembered.op = BinaryOp
  /\ remembered.seq = <<1>> /\ last.seq = <<1>> /\ last.rem = <<1>>

\* C7: a successful sequence_transition leaves its result as the current
\* state, so calls without a start state chain: after them the instance is in
\* the state one call with the concatenated letters reaches on a new instance.
C7_ChainedCallsAreOneCall ==
  /\ (last.op = SequenceOp /\ last.exc = NoExc) =>
       CurrentState(last.inst) = last.ret
  /\ \A i \in Ids :
       (instances[i] # NoInstance /\ hist[i].ok) =>
         CurrentState(i) =
           sequence_transition(ThreeFiniteStateMachine(ClassCurrentState, TransitionMatrix),
                               hist[i].seq, None).ret

C7_Witness ==
  /\ last.op = SequenceOp /\ last.init = None /\ last.exc = NoExc
  /\ last.seq = <<0, 1>> /\ hist[last.inst] = Chained(<<1, 0, 1>>)
  /\ last.before = "S1" /\ last.ret = "S2"

\* C8: putting 0 bits in front of a non-empty list of bits does not change
\* what binary_divide_by_three returns.
C8_LeadingZerosKeepRemainder ==
  (/\ last.op = BinaryOp /\ remembered.op = BinaryOp
   /\ \/ (IsBits(remembered.seq) /\ remembered.seq # <<>>
            /\ ZeroPrefixed(last.seq, remembered.seq))
      \/ (IsBits(last.seq) /\ last.seq # <<>>
            /\ ZeroPrefixed(remembered.seq, last.seq))) =>
    /\ last.exc = NoExc /\ remembered.exc = NoExc
    /\ last.rem = remembered.rem

C8_Witness ==
  /\ last.op = BinaryOp /\ remembered.op = BinaryOp
  /\ remembered.seq = <<1, 1>> /\ last.seq = <<0, 1, 1>> /\ last.rem = <<0>>

\* C9: transition never changes the instance: its current state and the
\* transition table are the same after the call, whether it returns or raises.
C9_TransitionKeepsInstance ==
  [][last'.op = "transition" =>
       /\ instances' = instances
       /\ class_current_state' = class_current_state
       /\ transition_matrix' = transition_matrix]_vars

C9_Witness ==
  /\ last.op = "transition" /\ last.state = "S1" /\ last.letter = 0
  /\ last.ret = "S2" /\ last.before = "S0"

\* C10: string_digit_list gives one integer per character, in order; with
\* binary_divide_by_three it gives the binary value modulo 3 of a non-empty
\* text of '0' and '1', and raises InvalidAlphabetContent for the empty text
\* and for a text of digits holding one of 2..9.
C10_TextOfDigits ==
  (last.op = "divide_string" /\ IsDigitText(last.text)) =>
    /\ last.digits = [k \in 1..Len(last.text) |-> DigitValue(last.text[k])]
    /\ (last.text # <<>> /\ IsBinaryText(last.text)) =>
         (last.exc = NoExc /\ last.rem = <<TextValue(last.text) % 3>>)
    /\ (last.text = <<>> \/ ~IsBinaryText(last.text)) =>
         (last.exc = InvalidAlphabetContent /\ last.rem = <<>>)

C10_Witness ==
  last.op = "divide_string" /\ last.text = <<"1", "1", "0">> /\ last.rem = <<0>>

C10_WitnessForeignDigit ==
  last.op = "divide_string" /\ last.text = <<"1", "9">> /\ last.exc = InvalidAlphabetContent

\* the state S_r of a remainder r, and the remainder of a state of Q
StateOf(r) == CASE r = 0 -> "S0" [] r = 1 -> "S1" [] r = 2 -> "S2"
RemainderOf(state) == CHOOSE r \in 0..2 : StateOf(r) = state

\* the table applied letter by letter to a state of Q and a list of bits
RECURSIVE Delta(_, _)
Delta(state, bits) ==
  IF bits = <<>> THEN state
  ELSE Delta(TransitionMatrix[state][Head(bits) + 1], Tail(bits))

\* C13: after any calls of sequence_transition, with any letters and any start
\* states, succeeding or failing, the instance's current state is in Q.
C13_CurrentStateInQ ==
  \A i \in Ids : instances[i] # NoInstance => CurrentState(i) \in Q

\* C14: sequence_transition given a start state of Q and a list of bits
\* returns the fold of the table from that start state, whatever the current
\* state was before.
C14_FoldStartsAtSuppliedState ==
  (last.op = SequenceOp /\ last.init \in Q /\ IsBits(last.seq)) =>
    /\ last.exc = NoExc
    /\ last.ret = Delta(last.init, last.seq)
    /\ CurrentState(last.inst) = last.ret

C14_Witness ==
  /\ last.op = SequenceOp /\ last.before = "S1" /\ last.init = "S2"
  /\ last.seq = <<1, 0>> /\ last.ret = "S1"

\* C15: transition(S_r, bit) is S_((2r + bit) mod 3), and an instance run
\* from S0 over a list of bits is in S_r with r the list's binary value mod 3.
C15_TableIsTheRecurrence ==
  /\ (last.op = "transition" /\ last.state \in Q /\ last.letter \in {0, 1}) =>
       /\ last.exc = NoExc
       /\ last.ret = StateOf((2 * RemainderOf(last.state) + last.letter) % 3)
  /\ \A i \in Ids :
       (instances[i] # NoInstance /\ hist[i].ok) =>
         CurrentState(i) = StateOf(BinaryValue(hist[i].seq) % 3)

C15_Witness ==
  /\ last.op = "transition" /\ last.state = "S2" /\ last.letter = 1
  /\ last.ret = "S2" /\ last.inst = 1
  /\ hist[1] = Chained(<<1, 0>>) /\ CurrentState(1) = "S2"

\* C16: the table has a row of exactly two states of Q for every state of Q,
\* so a transition from a state of Q on a letter of the alphabet returns a
\* state of Q and never raises.
C16_TableIsTotalAndClosed ==
  /\ DOMAIN transition_matrix = Q
  /\ \A s \in Q :
       /\ Len(transition_matrix[s]) = Cardinality(Sigma)
       /\ \A k \in 1..Len(transition_matrix[s]) : transition_matrix[s][k] \in Q
  /\ (last.op = "transition" /\ last.state \in Q /\ last.letter \in Sigma) =>
       (last.exc = NoExc /\ last.ret \in Q)

C16_Witness ==
  /\ last.op = "transition" /\ last.state = "S0" /\ last.letter = 1
  /\ last.exc = NoExc /\ last.ret = "S1"

\* C17: in transition the letter is checked before the table is looked up: a
\* letter outside the alphabet raises InvalidAlphabetContent with no access to
\* the table in that step.
C17_LetterCheckedBeforeLookup ==
  (last.op = "transition" /\ last.letter \notin Sigma) =>
    /\ last.exc = InvalidAlphabetContent
    /\ \A k \in 1..Len(last.trace) : last.trace[k] \notin {"row", "column"}

\* C19: sequence_transition with an empty sequence and no start state
\* returns the current state and leaves it unchanged.
C19_EmptySequenceReturnsCurrent ==
  (last.op = SequenceOp /\ last.seq = <<>> /\ last.init = None) =>
    /\ last.exc = NoExc
    /\ last.ret = last.before
    /\ CurrentState(last.inst) = last.before

C19_Witness ==
  /\ last.op = SequenceOp /\ last.seq = <<>> /\ last.init = None
  /\ last.before = "S2" /\ last.ret = "S2"

\* the current state of instance i after a step
CurrentStateAfter(i) ==
  current_state([cls |-> class_current_state', obj |-> instances'[i],
                 tm |-> transition_matrix'])

\* C18: a call of sequence_transition on one instance changes neither the
\* current state of another instance nor the class attribute, so an instance
\* constructed afterwards starts in S0.
C18_InstancesAreIsolated ==
  [][/\ last'.op = SequenceOp =>
          /\ \A j \in AllIds \ {last'.inst} : CurrentStateAfter(j) = CurrentState(j)
          /\ class_current_state' = class_current_state
     /\ last'.op = "construct" => CurrentStateAfter(last'.inst) = "S0"]_vars

C18_Witness ==
  /\ last.op = SequenceOp /\ last.inst = 1 /\ last.ret = "S1"
  /\ instances[1] = "S1" /\ instances[2] = NoAttr /\ CurrentState(2) = "S0"

C18_WitnessLaterInstance ==
  /\ last.op = "construct" /\ last.inst = 2
  /\ instances[1] = "S1" /\ CurrentState(2) = "S0"

\* the recall of bucket k of the call, and whether it reaches the target
BucketRecall(k) ==
  IF recall.tp[k] + recall.fn[k] = 0 THEN <<0, 1>>
  ELSE <<recall.tp[k], recall.tp[k] + recall.fn[k]>>
Reaches(k) == BucketRecall(k)[1] * recall.target[2] >= recall.target[1] * BucketRecall(k)[2]
SameRecall(j, k) == BucketRecall(j)[1] * BucketRecall(k)[2] = BucketRecall(k)[1] * BucketRecall(j)[2]
MoreRecall(j, k) == BucketRecall(j)[1] * BucketRecall(k)[2] > BucketRecall(k)[1] * BucketRecall(j)[2]

\* C11: find_best_recall_threshold raises InvalidDataException and returns
\* nothing exactly when a list has a length other than 9 or the lengths differ.
C11_BadLengthsRaise ==
  recall.done =>
    /\ (Len(recall.tp) # 9 \/ Len(recall.fn) # 9 \/ Len(recall.tp) # Len(recall.fn))
         <=> recall.exc = InvalidDataException
    /\ recall.exc = InvalidDataException => recall.ret = <<>>
    /\ recall.exc \in {NoExc, InvalidDataException}

C11_Witness ==
  /\ recall.done /\ Len(recall.tp) = 9 /\ Len(recall.fn) = 8
  /\ recall.exc = InvalidDataException

\* C12: for two lists of 9 counts the function returns (i+1)/10 of a bucket
\* whose recall is the highest among the buckets reaching the target, the
\* lowest such threshold on ties, and None exactly when no bucket reaches it.
C12_BestBucketIsReturned ==
  (recall.done /\ Len(recall.tp) = 9 /\ Len(recall.fn) = 9) =>
    /\ recall.exc = NoExc
    /\ recall.ret = <<>> <=> ~\E k \in 1..9 : Reaches(k)
    /\ recall.ret # <<>> =>
         \E k \in 1..9 :
           /\ recall.ret = <<k, 10>>
           /\ Reaches(k)
           /\ \A j \in 1..9 : ~MoreRecall(j, k)
           /\ \A j \in 1..(k - 1) : ~SameRecall(j, k)

C12_Witness ==
  /\ recall.done /\ recall.exc = NoExc /\ recall.target = <<9, 10>>
  /\ \E j \in 2..9, k \in 2..9 :
       /\ j < k /\ recall.ret = <<j, 10>>
       /\ Reaches(j) /\ SameRecall(j, k)
       /\ recall.tp[j] # recall.tp[k]

C12_WitnessNone ==
  /\ recall.done /\ recall.exc = NoExc /\ recall.ret = <<>>
  /\ \E k \in 1..9 : recall.tp[k] > 0

====
